---- MODULE Spec2Model ----
(***************************************************************************)
(* Model of the n-tuple network agent of agent.h (Feature, IsoFeature and  *)
(* ntuple): index packing, symmetry orbits, evaluation, action selection   *)
(* and the backward TD update at the end of an episode.                    *)
(*                                                                         *)
(* board.h, action.h and weight.h are not part of the sources at hand; the *)
(* board's cell read and slide are modelled from section 6 of the design   *)
(* description (see cell, slide).  The element type of a weight table is   *)
(* float or double (see Widths); every sum, difference, product and        *)
(* quotient of get_value, take_action and update_weight is computed in     *)
(* double, rounded to nearest with ties to even, and an entry is rounded   *)
(* to the element type when it is stored.                                  *)
(***************************************************************************)
EXTENDS Integers, Sequences, FiniteSets

(***************************************************************************)
(* Bounds of the model.                                                    *)
(***************************************************************************)
\* longest base feature drawn freely from the cell positions
MaxFeatLen == 2
\* longest trajectory recorded before the episode is closed or reopened
MaxHistory == 2
\* most update_weight calls applied to the tables in one run
MaxUpdates == 2
\* most create_iso_feature calls made on one IsoFeature
MaxCreates == 2

(***************************************************************************)
(* Integer helpers.                                                        *)
(***************************************************************************)
RECURSIVE Pow(_, _)
Pow(b, e) == IF e = 0 THEN 1 ELSE b * Pow(b, e - 1)

\* bitwise OR of two non-negative integers (the operator | of the source)
RECURSIVE BitOr(_, _)
BitOr(a, b) ==
    IF a = 0 THEN b
    ELSE IF b = 0 THEN a
    ELSE IF a % 16 = 0 /\ b < 16 THEN a + b
    ELSE (IF a % 2 = 1 \/ b % 2 = 1 THEN 1 ELSE 0) + 2 * BitOr(a \div 2, b \div 2)

(***************************************************************************)
(* Natural numbers of any size: the sequence of the digits in base 2^15,   *)
(* lowest first, without leading zero digits (zero is the empty sequence). *)
(***************************************************************************)
LimbBits == 15
Base == 32768

RECURSIVE Limbs(_)
Limbs(n) == IF n = 0 THEN <<>> ELSE <<n % Base>> \o Limbs(n \div Base)

RECURSIVE Trim(_)
Trim(a) ==
    IF a = <<>> THEN a
    ELSE IF a[Len(a)] = 0 THEN Trim(SubSeq(a, 1, Len(a) - 1))
    ELSE a

Limb(a, k) == IF k <= Len(a) THEN a[k] ELSE 0

RECURSIVE NAddFrom(_, _, _, _)
NAddFrom(a, b, k, carry) ==
    IF k > Len(a) /\ k > Len(b)
    THEN IF carry = 0 THEN <<>> ELSE <<carry>>
    ELSE <<(Limb(a, k) + Limb(b, k) + carry) % Base>> \o
         NAddFrom(a, b, k + 1, (Limb(a, k) + Limb(b, k) + carry) \div Base)

NAdd(a, b) == NAddFrom(a, b, 1, 0)

RECURSIVE NSubFrom(_, _, _, _)
NSubFrom(a, b, k, borrow) ==
    IF k > Len(a) THEN <<>>
    ELSE <<(a[k] - Limb(b, k) - borrow + Base) % Base>> \o
         NSubFrom(a, b, k + 1, IF a[k] - Limb(b, k) - borrow < 0 THEN 1 ELSE 0)

\* a - b for a >= b
NSub(a, b) == Trim(NSubFrom(a, b, 1, 0))

RECURSIVE NCmpFrom(_, _, _)
NCmpFrom(a, b, k) ==
    IF k = 0 THEN 0
    ELSE IF a[k] > b[k] THEN 1
    ELSE IF a[k] < b[k] THEN -1
    ELSE NCmpFrom(a, b, k - 1)

\* -1, 0, 1 as a < b, a = b, a > b
NCmp(a, b) ==
    IF Len(a) > Len(b) THEN 1
    ELSE IF Len(a) < Len(b) THEN -1
    ELSE NCmpFrom(a, b, Len(a))

RECURSIVE NMulSmallFrom(_, _, _, _)
NMulSmallFrom(a, m, k, carry) ==
    IF k > Len(a)
    THEN IF carry = 0 THEN <<>> ELSE <<carry>>
    ELSE <<(a[k] * m + carry) % Base>> \o
         NMulSmallFrom(a, m, k + 1, (a[k] * m + carry) \div Base)

\* a * m for 0 < m < Base
NMulSmall(a, m) == NMulSmallFrom(a, m, 1, 0)

Zeros(n) == [k \in 1 .. n |-> 0]

RECURSIVE NMulFrom(_, _, _)
NMulFrom(a, b, j) ==
    IF j > Len(b) THEN <<>>
    ELSE IF b[j] = 0 THEN NMulFrom(a, b, j + 1)
    ELSE NAdd(Zeros(j - 1) \o NMulSmall(a, b[j]), NMulFrom(a, b, j + 1))

NMul(a, b) == IF a = <<>> \/ b = <<>> THEN <<>> ELSE NMulFrom(a, b, 1)

\* a * 2^n
NShl(a, n) ==
    IF a = <<>> THEN <<>>
    ELSE Zeros(n \div LimbBits) \o
         (IF n % LimbBits = 0 THEN a ELSE NMulSmall(a, Pow(2, n % LimbBits)))

\* quotient limbs of positions 1 .. k and the remainder, the limbs above k
\* having left remainder rem
RECURSIVE NDivDown(_, _, _, _)
NDivDown(a, m, k, rem) ==
    IF k = 0 THEN <<<<>>, rem>>
    ELSE LET cur  == rem * Base + a[k]
             rest == NDivDown(a, m, k - 1, cur % m)
         IN  <<Append(rest[1], cur \div m), rest[2]>>

\* <<a div m, a mod m>> for 0 < m <= Base
NDivSmall(a, m) ==
    LET r == NDivDown(a, m, Len(a), 0) IN <<Trim(r[1]), r[2]>>

\* a div 2^n
NShr(a, n) ==
    IF n \div LimbBits >= Len(a) THEN <<>>
    ELSE IF n % LimbBits = 0 THEN SubSeq(a, n \div LimbBits + 1, Len(a))
    ELSE NDivSmall(SubSeq(a, n \div LimbBits + 1, Len(a)), Pow(2, n % LimbBits))[1]

RECURSIVE IntBitLen(_)
IntBitLen(n) == IF n = 0 THEN 0 ELSE 1 + IntBitLen(n \div 2)

NBitLen(a) == IF a = <<>> THEN 0 ELSE LimbBits * (Len(a) - 1) + IntBitLen(a[Len(a)])

RECURSIVE IntTrailingZeros(_)
IntTrailingZeros(n) == IF n % 2 = 1 THEN 0 ELSE 1 + IntTrailingZeros(n \div 2)

RECURSIVE NTrailingZerosFrom(_, _)
NTrailingZerosFrom(a, k) ==
    IF a[k] = 0 THEN LimbBits + NTrailingZerosFrom(a, k + 1) ELSE IntTrailingZeros(a[k])

\* the number of trailing zero bits of a # 0
NTrailingZeros(a) == NTrailingZerosFrom(a, 1)

(***************************************************************************)
(* Binary floating-point numbers (double and float of the source):         *)
(* <<sign, magnitude, exponent>> stands for sign * magnitude * 2^exponent  *)
(* with an odd magnitude, zero for <<0, <<>>, 0>>.  Every operation gives  *)
(* the exact result rounded to the nearest number of the format, ties to   *)
(* even.  The exponent is not limited: no overflow, no subnormal numbers;  *)
(* the sign of zero, infinities and NaN are not represented.               *)
(***************************************************************************)
\* significant bits of a double and of a float
DoubleBits == 53
FloatBits == 24

Zero == <<0, <<>>, 0>>

Shifted(sg, mag, ex, tz) == <<sg, NShr(mag, tz), ex + tz>>
Normal(sg, mag, ex) ==
    IF mag = <<>> THEN Zero ELSE Shifted(sg, mag, ex, NTrailingZeros(mag))

Sign(n) == IF n > 0 THEN 1 ELSE IF n < 0 THEN -1 ELSE 0
Abs(n) == IF n < 0 THEN -n ELSE n
\* the double of an int
Dbl(n) == Normal(Sign(n), Limbs(Abs(n)), 0)
\* n / 2^k
Frac(n, k) == Normal(Sign(n), Limbs(Abs(n)), -k)

\* t is the magnitude without the sh - 1 lowest of its sh excess bits: its
\* lowest bit is the first bit dropped; the bits below it are not all zero
\* unless sh = 1 (the magnitude is odd)
RoundUp(sg, t, ex, sh) ==
    LET q  == NShr(t, 1)
        up == IF sh = 1 THEN Limb(q, 1) % 2 = 1 ELSE t[1] % 2 = 1
    IN  Normal(sg, IF up THEN NAdd(q, <<1>>) ELSE q, ex + sh)

\* x rounded to p significant bits, ties to even
RoundTo(p, x) ==
    IF NBitLen(x[2]) <= p THEN x
    ELSE RoundUp(x[1], NShr(x[2], NBitLen(x[2]) - p - 1), x[3], NBitLen(x[2]) - p)

Min(a, b) == IF a < b THEN a ELSE b

\* the sum of magnitudes a and b (signs sa, sb) on a common exponent
Combine(sa, a, sb, b, ex) ==
    IF sa = sb THEN Normal(sa, NAdd(a, b), ex)
    ELSE IF NCmp(a, b) >= 0 THEN Normal(sa, NSub(a, b), ex)
    ELSE Normal(sb, NSub(b, a), ex)

\* x + y without rounding
ExactAdd(x, y) ==
    IF x[1] = 0 THEN y
    ELSE IF y[1] = 0 THEN x
    ELSE Combine(x[1], NShl(x[2], x[3] - Min(x[3], y[3])),
                 y[1], NShl(y[2], y[3] - Min(x[3], y[3])), Min(x[3], y[3]))

Neg(x) == <<-x[1], x[2], x[3]>>
ExactSub(x, y) == ExactAdd(x, Neg(y))
ExactMul(x, y) ==
    IF x[1] = 0 \/ y[1] = 0 THEN Zero
    ELSE Normal(x[1] * y[1], NMul(x[2], y[2]), x[3] + y[3])

DAdd(x, y) == RoundTo(DoubleBits, ExactAdd(x, y))
DSub(x, y) == RoundTo(DoubleBits, ExactSub(x, y))
DMul(x, y) == RoundTo(DoubleBits, ExactMul(x, y))

\* d = <<quotient, remainder>> of a magnitude by an odd number: the quotient
\* with, when a remainder is left, one more lowest bit set in its place
Quotient(sg, d, ex) ==
    IF d[2] = 0 THEN Normal(sg, d[1], ex)
    ELSE Normal(sg, NAdd(NShl(d[1], 1), <<1>>), ex - 1)

\* x / (double)n for an int 0 < n < Base: n is 2^tz * m with m odd, and the
\* quotient by m is carried to more bits than a double holds
DDivInt(x, n) ==
    LET tz == IntTrailingZeros(n)
        m  == n \div Pow(2, tz)
        k  == DoubleBits + 2 + IntBitLen(m)
    IN  IF x[1] = 0 THEN Zero
        ELSE IF m = 1 THEN RoundTo(DoubleBits, <<x[1], x[2], x[3] - tz>>)
        ELSE RoundTo(DoubleBits,
                     Quotient(x[1], NDivSmall(NShl(x[2], k), m), x[3] - tz - k))

\* x > y
DGreater(x, y) == ExactSub(x, y)[1] > 0

(***************************************************************************)
(* Board: 16 cells in row-major order, cell i of the source is b[i + 1].   *)
(***************************************************************************)
Cells == 0 .. 15

\* board::operator()(i), the rank held by cell i
cell(b, i) == b[i + 1]

(***************************************************************************)
(* Feature                                                                 *)
(***************************************************************************)
\* the count of empty cells taken at the head of Feature::operator()
EmptyCount(b) == Cardinality({i \in Cells : cell(b, i) = 0})

\* idx after the first k slots of the feature have been packed
RECURSIVE IndexFold(_, _, _)
IndexFold(feature, b, k) ==
    IF k = 0 THEN 0
    ELSE LET shifted == IndexFold(feature, b, k - 1) * 16
         IN  IF feature[k] = -1
             THEN BitOr(shifted, EmptyCount(b))
             ELSE BitOr(shifted, cell(b, feature[k]))

\* Feature::operator()(board)
FeatureIndex(feature, b) == IndexFold(feature, b, Len(feature))

\* i after the first k slots have been or-ed in (sentinel slots skipped)
RECURSIVE HashFold(_, _)
HashFold(feature, k) ==
    IF k = 0 THEN 0
    ELSE IF feature[k] = -1 THEN HashFold(feature, k - 1)
    ELSE BitOr(HashFold(feature, k - 1), Pow(2, feature[k]))

\* Feature::hash()
hash(feature) ==
    LET flag == \E k \in 1 .. Len(feature) : feature[k] = -1
        i    == HashFold(feature, Len(feature))
    IN  IF flag THEN -i ELSE i

(***************************************************************************)
(* IsoFeature                                                              *)
(***************************************************************************)
right_rotation_matching == <<12, 8, 4, 0, 13, 9, 5, 1, 14, 10, 6, 2, 15, 11, 7, 3>>
reflection_matching == <<15, 11, 7, 3, 14, 10, 6, 2, 13, 9, 5, 1, 12, 8, 4, 0>>

NotSentinel(i) == i # -1

\* the positions of feat that are not the sentinel, each sent through table
MapReal(feat, table) ==
    LET real == SelectSeq(feat, NotSentinel)
    IN  [k \in 1 .. Len(real) |-> table[real[k] + 1]]

left_rotate(feat) == MapReal(feat, right_rotation_matching)

reflection(feat) == MapReal(feat, reflection_matching)

\* feat after n applications of left_rotate
RECURSIVE RotateTimes(_, _)
RotateTimes(feat, n) == IF n = 0 THEN feat ELSE left_rotate(RotateTimes(feat, n - 1))

\* the nine variants in the order create_iso_feature pushes them to iso
IsoPushed(feat) ==
    LET mirrored == reflection(RotateTimes(feat, 5))
    IN  [k \in 1 .. 9 |->
            IF k <= 5 THEN RotateTimes(feat, k) ELSE RotateTimes(mirrored, k - 6)]

\* sorted with entry e put in: after every entry whose hash is not smaller
\* (the comparator is a.first > b.first).  std::sort on the nine entries of
\* iso is an insertion sort, which leaves entries of equal hash in the order
\* they were pushed.
InsertByHash(sorted, e) ==
    LET ahead == {k \in 1 .. Len(sorted) : hash(sorted[k]) >= hash(e)}
        n     == Cardinality(ahead)
    IN  SubSeq(sorted, 1, n) \o <<e>> \o SubSeq(sorted, n + 1, Len(sorted))

\* std::sort(iso.begin(), iso.end(), ...) on the first k entries pushed
RECURSIVE SortByHash(_, _)
SortByHash(pushed, k) ==
    IF k = 0 THEN <<>> ELSE InsertByHash(SortByHash(pushed, k - 1), pushed[k])

\* the list with nothing erased
UniqueKeepsAll(sorted) == sorted

\* iso.erase(std::unique(...)): of each run of entries that compare equal
\* (Feature::operator== compares the hashes) the first stays
Unique(sorted) ==
    LET keep == {k \in 1 .. Len(sorted) : k = 1 \/ hash(sorted[k]) # hash(sorted[k - 1])}
        nth(j) == CHOOSE k \in keep : Cardinality({m \in keep : m <= k}) = j
    IN  [j \in 1 .. Cardinality(keep) |-> sorted[nth(j)]]

\* the orbit without the sentinel pushed back
create_iso_feature_no_hint(member, feat) ==
    member \o Unique(SortByHash(IsoPushed(feat), 9))

\* IsoFeature::create_iso_feature(feat) on an object whose iso_feature holds
\* member: the orbit is pushed behind what the list holds already
create_iso_feature(member, feat) ==
    LET with_hint == \E k \in 1 .. Len(feat) : feat[k] = -1
        iso       == Unique(SortByHash(IsoPushed(feat), 9))
    IN  member \o
        [j \in 1 .. Len(iso) |-> IF with_hint THEN Append(iso[j], -1) ELSE iso[j]]

(***************************************************************************)
(* The board's slide, modelled from the design description (board.h is not *)
(* among the sources): a deterministic move that returns a non-negative    *)
(* reward, or -1 when the move is illegal.  The directions are those the   *)
(* placer's spaces[] imply (0 up, 1 right, 2 down, 3 left); each line moves *)
(* one step towards the wall, 1 and 2 merge into 3, equal ranks of 3 or    *)
(* more merge into the next rank; the reward is the gain in score.         *)
(***************************************************************************)
\* the cells of line n (0..3) of a slide in direction op, wall side first
SlideLineCells(op, n) ==
    IF op = 0 THEN <<n, n + 4, n + 8, n + 12>>
    ELSE IF op = 1 THEN <<4 * n + 3, 4 * n + 2, 4 * n + 1, 4 * n>>
    ELSE IF op = 2 THEN <<n + 12, n + 8, n + 4, n>>
    ELSE <<4 * n, 4 * n + 1, 4 * n + 2, 4 * n + 3>>

CanMove(a, b) ==
    /\ b # 0
    /\ \/ a = 0
       \/ a + b = 3 /\ a \in {1, 2}
       \/ a = b /\ a >= 3 /\ a < 15

Combined(a, b) == IF a = 0 THEN b ELSE IF a + b = 3 THEN 3 ELSE a + 1

SlideLine(l) ==
    LET movers == {k \in 2 .. 4 : CanMove(l[k - 1], l[k])}
    IN  IF movers = {} THEN l
        ELSE LET j == CHOOSE k \in movers : \A m \in movers : k <= m
             IN  [k \in 1 .. 4 |->
                    IF k < j - 1 THEN l[k]
                    ELSE IF k = j - 1 THEN Combined(l[j - 1], l[j])
                    ELSE IF k < 4 THEN l[k + 1]
                    ELSE 0]

RECURSIVE ScoreFold(_, _)
ScoreFold(b, k) ==
    IF k = 0 THEN 0
    ELSE ScoreFold(b, k - 1) + (IF b[k] >= 3 THEN Pow(3, b[k] - 2) ELSE 0)

Score(b) == ScoreFold(b, 16)

\* the line cell c lies on in a slide in direction op, and its place on it
LinePos(op, c) ==
    IF op = 0 THEN <<c % 4, (c \div 4) + 1>>
    ELSE IF op = 1 THEN <<c \div 4, 4 - (c % 4)>>
    ELSE IF op = 2 THEN <<c % 4, 4 - (c \div 4)>>
    ELSE <<c \div 4, (c % 4) + 1>>

\* board::slide(op) on a copy of b: the board it leaves and what it returns
slide(b, op) ==
    LET lines == [n \in 0 .. 3 |->
                    SlideLine([q \in 1 .. 4 |-> cell(b, SlideLineCells(op, n)[q])])]
        moved == [p \in 1 .. 16 |->
                    lines[LinePos(op, p - 1)[1]][LinePos(op, p - 1)[2]]]
    IN  IF moved = b THEN [after |-> b, reward |-> -1]
        ELSE [after |-> moved, reward |-> Score(moved) - Score(b)]

(***************************************************************************)
(* ntuple                                                                  *)
(***************************************************************************)
feats == << <<0, 1, 2, 3, 4, 5>>, <<4, 5, 6, 7, 8, 9>>,
            <<5, 6, 7, 9, 10, 11>>, <<9, 10, 11, 13, 14, 15>> >>

op_code == <<0, 1, 2, 3>>

\* action() of the source, the action that is no slide
NullAction == -1

(***************************************************************************)
(* State.                                                                  *)
(***************************************************************************)
VARIABLES
    features,     \* ntuple::features, one list of Feature per base tuple
    feature_num,  \* ntuple::feature_num
    net,          \* weight_agent::net: [seed, width, delta], the content
                  \* the tables were loaded with, the significant bits of
                  \* their element type, and the entries written since
    alpha,        \* weight_agent::alpha
    history,      \* ntuple::history, top of the stack last
    pc,           \* "idle" between calls, "closing" inside the while loop of
                  \* close_episode, "crashed" or "corrupted" after undefined
                  \* behaviour
    prev,         \* the local prev of close_episode while it runs
    updates,      \* update_weight calls made so far (bounds the run)
    last_call,    \* the member function called last and what it returned
    closed,       \* the stack as close_episode found it, while it is the
                  \* member function called last
    calls,        \* the update_weight calls of the member function called
                  \* last, in order: target, state, the tables before and
                  \* after the call
    feat,         \* a Feature handed to the IsoFeature constructor
    iso_feature,  \* IsoFeature::iso_feature of that object
    built,        \* create_iso_feature calls made on that object
    probe         \* the last call of Feature::operator(): feature, board, idx

vars == <<features, feature_num, net, alpha, history, pc, prev, updates,
          last_call, closed, calls, feat, iso_feature, built, probe>>

agent_vars == <<features, feature_num, net, alpha, history, pc, prev, updates,
                last_call, closed, calls>>
feature_vars == <<feat, iso_feature, built, probe>>

(***************************************************************************)
(* Boards the calls are made with.                                         *)
(***************************************************************************)
EmptyBoard == [p \in 1 .. 16 |-> 0]
\* one tile off the centre: every direction is legal and earns nothing
OneTile == [p \in 1 .. 16 |-> IF p = 6 THEN 1 ELSE 0]
\* 1 and 2 side by side in the top row: sliding left merges them
MergePair == [p \in 1 .. 16 |-> IF p = 1 THEN 1 ELSE IF p = 2 THEN 2 ELSE 0]
\* every cell holds rank 1: full, nothing merges, no direction is legal
AllOnes == [p \in 1 .. 16 |-> 1]
\* a board without any symmetry
Mixed == <<1, 2, 3, 0,  0, 1, 0, 2,  3, 0, 0, 1,  0, 0, 2, 0>>
\* cells 0..5 hold 1..6
Counting == [p \in 1 .. 16 |-> IF p <= 6 THEN p ELSE 0]
\* every cell holds rank 15
AllFifteen == [p \in 1 .. 16 |-> 15]

Boards == {OneTile, MergePair, AllOnes, Mixed}
Seeds == {0, 1}
\* learning rates (float): 0.5, whose quotient by feature_num is rounded, and
\* 0.875, whose quotient is 1/32
Alphas == {Frac(1, 1), Frac(7, 3)}
\* the element type of the tables is float or double
Widths == {FloatBits, DoubleBits}
\* targets and boards of update_weight calls made from outside
\* close_episode: a board where features share entries, one where none do
Targets == {Dbl(3)}
UpdateBoards == {AllOnes, Mixed}

(***************************************************************************)
(* ntuple: evaluation.                                                     *)
(***************************************************************************)
\* what entry idx of table i held when the agent was constructed: all zero
\* (seed 0, a fresh init=) or loaded values of both signs (seed 1)
InitWeight(seed, i, idx) ==
    IF seed = 0 THEN Zero ELSE Dbl(((idx + i) % 11) - 6)

\* net[i][idx]
Weight(n, i, idx) ==
    IF <<i, idx>> \in DOMAIN n.delta THEN n.delta[<<i, idx>>]
    ELSE InitWeight(n.seed, i, idx)

\* sum after the inner loop of get_value has added to acc the entries of
\* table i for its features j, j + 1, ... (sum += net[i][idx])
RECURSIVE SumTable(_, _, _, _, _, _)
SumTable(n, fs, b, i, j, acc) ==
    IF j > Len(fs[i]) THEN acc
    ELSE IF acc[1] = 0  \* 0.0 + w is w
    THEN SumTable(n, fs, b, i, j + 1, Weight(n, i, FeatureIndex(fs[i][j], b)))
    ELSE SumTable(n, fs, b, i, j + 1,
                  DAdd(acc, Weight(n, i, FeatureIndex(fs[i][j], b))))

\* sum after the outer loop of get_value has run for the first i tables
RECURSIVE SumUpTo(_, _, _, _)
SumUpTo(n, fs, b, i) ==
    IF i = 0 THEN Zero ELSE SumTable(n, fs, b, i, 1, SumUpTo(n, fs, b, i - 1))

\* ntuple::get_value(board) on the tables n
ValueOn(n, fs, b) == SumUpTo(n, fs, b, Len(fs))

get_value(b) == ValueOn(net, features, b)

(***************************************************************************)
(* ntuple: learning.                                                       *)
(***************************************************************************)
\* the entries <<i, idx>> the inner loop of update_weight visits for table i
\* on board b, in order
TableSlots(fs, b, i) == [j \in 1 .. Len(fs[i]) |-> <<i, FeatureIndex(fs[i][j], b)>>]

\* the entries visited for the first i tables
RECURSIVE SlotsUpTo(_, _, _)
SlotsUpTo(fs, b, i) ==
    IF i = 0 THEN <<>> ELSE SlotsUpTo(fs, b, i - 1) \o TableSlots(fs, b, i)

Slots(fs, b) == SlotsUpTo(fs, b, Len(fs))

\* how many times the loops of update_weight visit entry key
Visits(slots, key) == Cardinality({k \in 1 .. Len(slots) : slots[k] = key})

\* net[i][idx] += tg on an entry holding w: the sum is a double, the entry
\* keeps it rounded to the width of its type
Stored(width, w, tg) == RoundTo(width, DAdd(w, tg))

\* the entry after k more visits
RECURSIVE StoredTimes(_, _, _, _)
StoredTimes(width, w, tg, k) ==
    IF k = 0 THEN w
    ELSE IF w[1] = 0  \* 0.0 + tg is tg
    THEN StoredTimes(width, RoundTo(width, tg), tg, k - 1)
    ELSE StoredTimes(width, Stored(width, w, tg), tg, k - 1)

\* the record of the entries written, without those that hold again what
\* the tables were loaded with
Written(seed, d) ==
    [x \in {y \in DOMAIN d : d[y] # InitWeight(seed, y[1], y[2])} |-> d[x]]

\* the tables after the loops of update_weight ran over slots: every visit
\* of an entry adds tg to it
AddToSlots(n, slots, tg) ==
    LET keys == {slots[k] : k \in 1 .. Len(slots)}
    IN  IF tg[1] = 0 THEN n  \* w + 0.0 is w
        ELSE
        [n EXCEPT !.delta =
            Written(n.seed,
                [x \in DOMAIN n.delta \cup keys |->
                    IF x \in keys
                    THEN StoredTimes(n.width, Weight(n, x[1], x[2]), tg, Visits(slots, x))
                    ELSE n.delta[x]])]

\* the step without the division by feature_num
StepOfUndivided(rate, fnum, target, value) == DMul(rate, DSub(target, value))

\* alpha/(double)(feature_num) * (target - value)
StepOf(rate, fnum, target, value) == DMul(DDivInt(rate, fnum), DSub(target, value))

\* ntuple::update_weight(target, curr) on the tables n: the tables it leaves
update_weight(n, target, curr) ==
    AddToSlots(n, Slots(features, curr),
               StepOf(alpha, feature_num, target, ValueOn(n, features, curr)))

\* the target with the value of last taken on the tables as they stood
\* before the update for last
TargetOfStale(n, reward, last) ==
    DAdd(Dbl(reward), ValueOn(calls[Len(calls)].before, features, last))

\* the target close_episode passes for an entry with the given reward, last
\* being the board updated just before and n the tables as they stand
TargetOf(n, reward, last) == DAdd(Dbl(reward), ValueOn(n, features, last))

\* the first target as the reward the popped entry recorded
FirstTargetReward(current) == Dbl(current[2])

\* the target of the first update_weight call of close_episode
FirstTarget(current) == Zero

(***************************************************************************)
(* ntuple: action selection.                                               *)
(***************************************************************************)
\* estimate > best
Better(estimate, best) == DGreater(estimate, best)

\* best before the loop
InitialBest == Dbl(-1)

\* if (estimate > best) { best = estimate; best_op = op; rew = reward; }
Judge(s, op, reward, estimate) ==
    IF Better(estimate, s.best)
    THEN [best |-> estimate, best_op |-> op, rew |-> reward]
    ELSE s

\* one round of the loop of take_action: r is what slide(op) gave on a copy
Round(s, op, r) ==
    IF r.reward # -1
    THEN Judge(s, op, r.reward, DAdd(get_value(r.after), Dbl(r.reward)))
    ELSE s

\* best, best_op and rew of take_action after the first k rounds of its loop
RECURSIVE Selection(_, _)
Selection(before, k) ==
    IF k = 0 THEN [best |-> InitialBest, best_op |-> -1, rew |-> "uninitialized"]
    ELSE Round(Selection(before, k - 1), op_code[k], slide(before, op_code[k]))

\* what take_action pushes and returns once the loop has ended in s
Decision(before, s) ==
    IF s.best_op # -1
    THEN [entry |-> <<before, s.rew>>, ret |-> s.best_op]
    ELSE [entry |-> <<before, 0>>, ret |-> NullAction]

\* ntuple::take_action(before): the entry pushed and the action returned
take_action(before) == Decision(before, Selection(before, Len(op_code)))

(***************************************************************************)
(* The agent: construction and member functions.                           *)
(***************************************************************************)
RECURSIVE SumLen(_, _)
SumLen(fs, k) == IF k = 0 THEN 0 ELSE SumLen(fs, k - 1) + Len(fs[k])

NoCall == [op |-> "none", board |-> EmptyBoard, ret |-> NullAction, pre_len |-> 0]

NoProbe == [feature |-> <<>>, board |-> EmptyBoard, idx |-> 0]

\* ntuple::ntuple with init= naming four tables of 16^6 entries: features is
\* one IsoFeature per entry of feats, feature_num the number of Features
InitAgent ==
    /\ features = [i \in 1 .. Len(feats) |-> create_iso_feature(<<>>, feats[i])]
    /\ feature_num = SumLen(features, Len(features))
    /\ alpha \in Alphas
    /\ \E seed \in Seeds, width \in Widths :
          net = [seed |-> seed, width |-> width, delta |-> <<>>]
    /\ history = <<>>
    /\ pc = "idle"
    /\ prev = EmptyBoard
    /\ updates = 0
    /\ last_call = NoCall
    /\ closed = <<>>
    /\ calls = <<>>

NoFeature ==
    /\ feat = <<>>
    /\ iso_feature = <<>>
    /\ built = 0
    /\ probe = NoProbe

\* a call of ntuple::take_action(before) with outcome d
TakeActionDoes(before, d) ==
    /\ history' = Append(history, d.entry)
    /\ last_call' = [op |-> "take_action", board |-> before,
                     ret |-> d.ret, pre_len |-> Len(history)]

TakeAction(before) ==
    /\ pc = "idle"
    /\ Len(history) < MaxHistory
    /\ TakeActionDoes(before, take_action(before))
    /\ closed' = <<>>
    /\ calls' = <<>>
    /\ UNCHANGED <<features, feature_num, net, alpha, pc, prev, updates, feature_vars>>

\* ntuple::open_episode()
OpenEpisode ==
    /\ pc = "idle"
    /\ history' = <<>>
    /\ last_call' = [op |-> "open_episode", board |-> EmptyBoard,
                     ret |-> NullAction, pre_len |-> Len(history)]
    /\ closed' = <<>>
    /\ calls' = <<>>
    /\ UNCHANGED <<features, feature_num, net, alpha, pc, prev, updates, feature_vars>>

\* one call update_weight(target, curr), logged
Update(target, curr) ==
    /\ net' = update_weight(net, target, curr)
    /\ calls' = Append(IF pc = "idle" THEN <<>> ELSE calls,
                       [target |-> target, state |-> curr, before |-> net, after |-> net'])
    /\ updates' = updates + 1

\* ntuple::update_weight(target, curr) called from outside close_episode
UpdateWeight(target, curr) ==
    /\ pc = "idle"
    /\ updates < MaxUpdates
    /\ Update(target, curr)
    /\ last_call' = [op |-> "update_weight", board |-> curr,
                     ret |-> NullAction, pre_len |-> Len(history)]
    /\ closed' = <<>>
    /\ UNCHANGED <<features, feature_num, alpha, history, pc, prev, feature_vars>>

\* ntuple::close_episode() with at least one entry on the stack, up to the
\* while loop: the top entry is popped and updated towards FirstTarget
CloseEpisodeBegin ==
    /\ pc = "idle"
    /\ history # <<>>
    /\ updates + Len(history) <= MaxUpdates
    /\ LET current == history[Len(history)]
       IN  /\ Update(FirstTarget(current), current[1])
           /\ prev' = IF Len(history) = 1 THEN EmptyBoard ELSE current[1]
    /\ history' = SubSeq(history, 1, Len(history) - 1)
    /\ closed' = history
    /\ pc' = IF history' = <<>> THEN "idle" ELSE "closing"
    /\ last_call' = [op |-> "close_episode", board |-> EmptyBoard,
                     ret |-> NullAction, pre_len |-> Len(history)]
    /\ UNCHANGED <<features, feature_num, alpha, feature_vars>>

\* one round of the while loop of close_episode; the call returns when the
\* stack is empty
CloseEpisodeLoop ==
    /\ pc = "closing"
    /\ LET current == history[Len(history)]
       IN  /\ Update(TargetOf(net, current[2], prev), current[1])
           /\ prev' = IF Len(history) = 1 THEN EmptyBoard ELSE current[1]
    /\ history' = SubSeq(history, 1, Len(history) - 1)
    /\ pc' = IF history' = <<>> THEN "idle" ELSE "closing"
    /\ UNCHANGED <<features, feature_num, alpha, last_call, closed, feature_vars>>

\* ntuple::close_episode() on an empty stack: history.top() and history.pop()
\* on an empty std::stack are undefined.  The process is killed ...
CloseEpisodeCrash ==
    /\ pc = "idle"
    /\ history = <<>>
    /\ pc' = "crashed"
    /\ closed' = history
    /\ calls' = <<>>
    /\ last_call' = [op |-> "close_episode", board |-> EmptyBoard,
                     ret |-> NullAction, pre_len |-> 0]
    /\ UNCHANGED <<features, feature_num, net, alpha, history, prev, updates, feature_vars>>

\* ... or the call reads an entry that was never pushed, moves the end of
\* the stack before its start and goes on from there: the agent is left in
\* no state of the program (what follows is not modelled)
CloseEpisodeCorrupt ==
    /\ pc = "idle"
    /\ history = <<>>
    /\ pc' = "corrupted"
    /\ closed' = history
    /\ calls' = <<>>
    /\ last_call' = [op |-> "close_episode", board |-> EmptyBoard,
                     ret |-> NullAction, pre_len |-> 0]
    /\ UNCHANGED <<features, feature_num, net, alpha, history, prev, updates, feature_vars>>

Init == InitAgent /\ NoFeature

Next ==
    \/ \E before \in Boards : TakeAction(before)
    \/ OpenEpisode
    \/ \E target \in Targets, curr \in UpdateBoards : UpdateWeight(target, curr)
    \/ CloseEpisodeBegin
    \/ CloseEpisodeLoop
    \/ CloseEpisodeCrash
    \/ CloseEpisodeCorrupt

Spec == Init /\ [][Next]_vars

(***************************************************************************)
(* Feature and IsoFeature on their own: a base feature is drawn, its orbit *)
(* is built, and features are applied to boards.                           *)
(***************************************************************************)
\* the lists of at most n distinct cell positions
RECURSIVE DistinctLists(_)
DistinctLists(n) ==
    IF n = 0 THEN {<<>>}
    ELSE LET shorter == DistinctLists(n - 1)
         IN  shorter \cup
             UNION {{Append(l, c) : c \in Cells \ {l[k] : k \in 1 .. Len(l)}} :
                        l \in {x \in shorter : Len(x) = n - 1}}

PlainFeatures == DistinctLists(MaxFeatLen)

\* l with the sentinel put in front of slot k (k = Len(l) + 1: at the end)
InsertSentinel(l, k) == SubSeq(l, 1, k - 1) \o <<-1>> \o SubSeq(l, k, Len(l))

\* the lists of at most MaxFeatLen slots of which one is the sentinel
SentinelFeatures ==
    UNION {{InsertSentinel(l, k) : k \in 1 .. Len(l) + 1} :
              l \in DistinctLists(MaxFeatLen - 1)}

\* the tuples the source configures, in use or commented out, and tuples
\* with the sentinel in the middle, in front, or twice
ConfiguredFeatures ==
    {feats[k] : k \in 1 .. Len(feats)} \cup
    {<<0, 1, 2, 3>>, <<4, 5, 6, 7>>, <<6, 7, 9, 10, 11, -1>>, <<10, 11, 13, 14, 15, -1>>,
     <<0, 1, 2, 4, 5, 8>>, <<4, 5, 6, 8, 9, 10>>, <<0, -1, -1, 3>>,
     <<0, -1, 1>>, <<-1, 5, 6, 7, 9, 10>>, <<5, 6, -1, 9, 10>>}

BaseFeatures == PlainFeatures \cup SentinelFeatures \cup ConfiguredFeatures

\* bases of a second create_iso_feature call, beside the first base again
AgainFeatures == {<<5>>}

ProbeBoards == {EmptyBoard, Counting, AllFifteen}

InitFeature ==
    /\ feat \in BaseFeatures
    /\ iso_feature = <<>>
    /\ built = 0
    /\ probe = NoProbe
    /\ features = <<>>
    /\ feature_num = 0
    /\ alpha = Zero
    /\ net = [seed |-> 0, width |-> DoubleBits, delta |-> <<>>]
    /\ history = <<>>
    /\ pc = "idle"
    /\ prev = EmptyBoard
    /\ updates = 0
    /\ last_call = NoCall
    /\ closed = <<>>
    /\ calls = <<>>

\* IsoFeature::IsoFeature(feature)
Construct ==
    /\ built = 0
    /\ iso_feature' = create_iso_feature(iso_feature, feat)
    /\ built' = 1
    /\ UNCHANGED <<feat, probe, agent_vars>>

\* IsoFeature::create_iso_feature(f) called again on the constructed object
CreateIsoFeature(f) ==
    /\ built >= 1
    /\ built < MaxCreates
    /\ iso_feature' = create_iso_feature(iso_feature, f)
    /\ built' = built + 1
    /\ UNCHANGED <<feat, probe, agent_vars>>

\* Feature::operator()(board) of the base feature or of a member of the orbit
Index(f, b) ==
    /\ probe' = [feature |-> f, board |-> b, idx |-> FeatureIndex(f, b)]
    /\ UNCHANGED <<feat, iso_feature, built, agent_vars>>

NextFeature ==
    \/ Construct
    \/ \E f \in {feat} \cup AgainFeatures : CreateIsoFeature(f)
    \/ \E f \in {feat} \cup {iso_feature[k] : k \in 1 .. Len(iso_feature)},
          b \in ProbeBoards : Index(f, b)

SpecFeature == InitFeature /\ [][NextFeature]_vars

(***************************************************************************)
(* The symmetries of the board, for stating the properties.                *)
(***************************************************************************)
IdentityPerm == [i \in 1 .. 16 |-> i - 1]

\* first q, then p
Compose(p, q) == [i \in 1 .. 16 |-> p[q[i] + 1]]

RECURSIVE RotationPower(_)
RotationPower(n) ==
    IF n = 0 THEN IdentityPerm ELSE Compose(right_rotation_matching, RotationPower(n - 1))

\* the 8 symmetries: the rotations, each with or without the reflection
Symmetries ==
    {RotationPower(n) : n \in 0 .. 3} \cup
    {Compose(RotationPower(n), reflection_matching) : n \in 0 .. 3}

\* the board whose cell i holds what cell g[i] of b holds
Transformed(b, g) == [p \in 1 .. 16 |-> cell(b, g[p])]

Real(f) == SelectSeq(f, NotSentinel)
HasSentinel(f) == \E k \in 1 .. Len(f) : f[k] = -1
Members(list) == {list[k] : k \in 1 .. Len(list)}

LegalOps(b) == {op \in Members(op_code) : slide(b, op).reward # -1}
Estimate(b, op) == DAdd(get_value(slide(b, op).after), Dbl(slide(b, op).reward))
Top == history[Len(history)]

(***************************************************************************)
(* Properties.                                                             *)
(***************************************************************************)
\* C1: get_value gives a board and each of its 8 symmetric images the same
\* value, whatever the tables hold.
C1_EvaluationInvariant ==
    \A b \in Boards : \A g \in Symmetries :
        get_value(Transformed(b, g)) = get_value(b)

\* C2: take_action pushes exactly one entry; with a legal direction it
\* returns a slide of a legal direction and pushes (before, reward of that
\* slide); with none it returns the null action and pushes (before, 0).
C2_TakeActionContract ==
    last_call.op = "take_action" =>
        /\ Len(history) = last_call.pre_len + 1
        /\ IF LegalOps(last_call.board) # {}
           THEN /\ last_call.ret \in LegalOps(last_call.board)
                /\ Top = <<last_call.board, slide(last_call.board, last_call.ret).reward>>
           ELSE /\ last_call.ret = NullAction
                /\ Top = <<last_call.board, 0>>

\* C3: whenever the state has a legal direction, the move take_action
\* chooses is a legal direction whose estimate is not below that of any
\* legal direction, and strictly above that of every legal direction
\* enumerated before it (among the directions of maximal estimate it is the
\* first), whatever the tables hold.
C3_SelectsFirstMaximum ==
    (last_call.op = "take_action" /\ LegalOps(last_call.board) # {}) =>
        /\ last_call.ret \in LegalOps(last_call.board)
        /\ \A op \in LegalOps(last_call.board) :
              /\ ~DGreater(Estimate(last_call.board, op),
                           Estimate(last_call.board, last_call.ret))
              /\ op < last_call.ret =>
                    DGreater(Estimate(last_call.board, last_call.ret),
                             Estimate(last_call.board, op))

\* C4: close_episode returns normally with the trajectory empty after any
\* number of take_action calls, none included, and open_episode leaves the
\* trajectory empty.
C4_EpisodeBookkeeping ==
    /\ last_call.op = "close_episode" =>
          (pc \in {"idle", "closing"} /\ (pc = "idle" => history = <<>>))
    /\ last_call.op = "open_episode" => history = <<>>

\* C5: close_episode on n >= 1 entries calls update_weight once per entry,
\* last recorded first, n times in all, and the first call has target 0
\* whatever reward the last entry recorded.
C5_OneUpdatePerEntry ==
    (last_call.op = "close_episode" /\ closed # <<>>) =>
        /\ Len(calls) + Len(history) = Len(closed)
        /\ pc = "idle" => Len(calls) = Len(closed)
        /\ \A k \in 1 .. Len(calls) : calls[k].state = closed[Len(closed) + 1 - k][1]
        /\ Len(calls) >= 1 => calls[1].target = Zero

\* a close_episode that has returned from a trajectory whose last entry
\* recorded a reward
C5_Witness ==
    /\ last_call.op = "close_episode"
    /\ pc = "idle"
    /\ closed # <<>>
    /\ closed[Len(closed)][2] > 0

\* C8: every update_weight call of close_episode after the first has target
\* reward + value(previous), the value taken on the tables as the update for
\* previous left them.
C8_TargetOnUpdatedTables ==
    (last_call.op = "close_episode" /\ closed # <<>>) =>
        \A k \in 2 .. Len(calls) :
            calls[k].target =
                DAdd(Dbl(closed[Len(closed) + 1 - k][2]),
                     ValueOn(calls[k - 1].after, features, calls[k - 1].state))

\* a close_episode whose second update came after a first one that changed
\* the value of its board
C8_Witness ==
    /\ last_call.op = "close_episode"
    /\ Len(closed) >= 2
    /\ Len(calls) >= 2
    /\ ValueOn(calls[1].after, features, calls[1].state) #
           ValueOn(calls[1].before, features, calls[1].state)

\* get_value(state) before and after call c, and the error before it
ValueBefore(c) == ValueOn(c.before, features, c.state)
ValueAfter(c) == ValueOn(c.after, features, c.state)
Error(c) == ExactSub(c.target, ValueBefore(c))

\* the entries update_weight addresses on the board of call c
Addressed(c) == Members(Slots(features, c.state))

\* every entry of the tables that call c did not address holds what it held
OthersUnchanged(c) ==
    \A key \in (DOMAIN c.before.delta \cup DOMAIN c.after.delta) \ Addressed(c) :
        Weight(c.after, key[1], key[2]) = Weight(c.before, key[1], key[2])

\* the sum, over the entries addressed, of the square of the number of
\* features addressing the entry
RECURSIVE SumSquares(_, _)
SumSquares(slots, keys) ==
    IF keys = {} THEN 0
    ELSE LET key == CHOOSE x \in keys : TRUE
         IN  Visits(slots, key) * Visits(slots, key) + SumSquares(slots, keys \ {key})

Aliasing(c) == Cardinality(Addressed(c)) < Len(Slots(features, c.state))

\* the sum of the entries slots[lo .. hi] without rounding
RECURSIVE ExactSum(_, _, _, _)
ExactSum(n, slots, lo, hi) ==
    IF lo > hi THEN Zero
    ELSE IF lo = hi THEN Weight(n, slots[lo][1], slots[lo][2])
    ELSE ExactAdd(ExactSum(n, slots, lo, (lo + hi) \div 2),
                  ExactSum(n, slots, (lo + hi) \div 2 + 1, hi))

\* x is a number of the format of p significant bits
Fits(p, x) == RoundTo(p, x) = x

\* alpha / feature_num is a double
RateExact == ExactMul(DDivInt(alpha, feature_num), Dbl(feature_num)) = alpha

\* the step of call c in exact arithmetic, the rate being exact
ExactStep(c) == ExactMul(DDivInt(alpha, feature_num), Error(c))

\* no sum, difference, quotient or product that call c and the evaluations
\* before and after it compute has to be rounded: the exact results are
\* numbers of the formats they are stored in
RoundingFree(c, slots, step) ==
    /\ ExactSum(c.before, slots, 1, Len(slots)) = ValueBefore(c)
    /\ RateExact
    /\ Fits(DoubleBits, Error(c))
    /\ Fits(DoubleBits, step)
    /\ \A key \in Members(slots) : \A j \in 1 .. Visits(slots, key) :
          Fits(c.before.width,
               ExactAdd(Weight(c.before, key[1], key[2]), ExactMul(Dbl(j), step)))
    /\ ExactSum(c.after, slots, 1, Len(slots)) = ValueAfter(c)

NoRounding(c) == RoundingFree(c, Slots(features, c.state), ExactStep(c))

\* get_value(state) is, after call c, factor times the error above what it
\* was before
MovedBy(c, factor) ==
    ValueAfter(c) = ExactAdd(ValueBefore(c), ExactMul(factor, Error(c)))

\* alpha / feature_num times the sum of the squared numbers of visits
AliasedRate(slots) ==
    ExactMul(DDivInt(alpha, feature_num), Dbl(SumSquares(slots, Members(slots))))

\* C10: one call update_weight(target, state) moves get_value(state) by
\* exactly alpha times the error in exact arithmetic, on every board, and
\* leaves every entry it does not address unchanged.
C10_ExactAlphaStep ==
    \A k \in 1 .. Len(calls) :
        /\ NoRounding(calls[k]) => MovedBy(calls[k], alpha)
        /\ OthersUnchanged(calls[k])

\* C10 as amended: in exact arithmetic the call moves get_value(state) by
\* alpha / feature_num times the error times the sum over the addressed
\* entries of the squared number of features addressing them, which is alpha
\* times the error when no two features address the same entry; other
\* entries are unchanged.
C10_StepCountsAliases ==
    \A k \in 1 .. Len(calls) :
        /\ NoRounding(calls[k]) =>
              /\ MovedBy(calls[k], AliasedRate(Slots(features, calls[k].state)))
              /\ ~Aliasing(calls[k]) => MovedBy(calls[k], alpha)
        /\ OthersUnchanged(calls[k])

\* an update without rounding, with an error, on a board where features
\* share entries, after one on a board where none do
C10_Witness ==
    \E j, k \in 1 .. Len(calls) :
        /\ Aliasing(calls[k])
        /\ ~Aliasing(calls[j])
        /\ NoRounding(calls[k])
        /\ NoRounding(calls[j])
        /\ Error(calls[k]) # Zero
        /\ Error(calls[j]) # Zero

(***************************************************************************)
(* Properties of Feature and IsoFeature.                                   *)
(***************************************************************************)
\* C6: the orbit IsoFeature builds from a base feature of distinct cell
\* positions (the list its constructor leaves) holds no two members of equal
\* hash, holds a member with the hash of the base feature, has a size
\* dividing 8, and four rotations of a member give its hash back.
C6_SymmetryClosure ==
    (built = 1 /\ ~HasSentinel(feat)) =>
        /\ \A j, k \in 1 .. Len(iso_feature) :
              j # k => hash(iso_feature[j]) # hash(iso_feature[k])
        /\ \E k \in 1 .. Len(iso_feature) : hash(iso_feature[k]) = hash(feat)
        /\ 8 % Len(iso_feature) = 0
        /\ \A k \in 1 .. Len(iso_feature) :
              hash(RotateTimes(iso_feature[k], 4)) = hash(iso_feature[k])

\* the orbit of a six-cell tuple that a symmetry maps to itself
C6_Witness ==
    /\ built = 1
    /\ Len(feat) = 6
    /\ ~HasSentinel(feat)
    /\ Len(iso_feature) = 4

\* the base-16 digit of slot k of feature f on board b
Digit(f, b, k) == IF f[k] = -1 THEN EmptyCount(b) ELSE cell(b, f[k])

RECURSIVE DigitsValue(_, _, _)
DigitsValue(f, b, k) ==
    IF k = 0 THEN 0 ELSE 16 * DigitsValue(f, b, k - 1) + Digit(f, b, k)

\* C7: Feature::operator() returns the base-16 number whose digits are the
\* ranks of the listed cells, or the empty-cell count for a sentinel slot;
\* every digit fits in 4 bits and the result lies in [0, 16^n).
C7_IndexPacking ==
    probe.feature # <<>> =>
        /\ \A k \in 1 .. Len(probe.feature) : Digit(probe.feature, probe.board, k) < 16
        /\ probe.idx = DigitsValue(probe.feature, probe.board, Len(probe.feature))
        /\ probe.idx >= 0
        /\ probe.idx < Pow(16, Len(probe.feature))

\* C9: every member of the orbit built from a base feature with a sentinel slot has
\* the length of the base feature, its other positions mapped through one
\* symmetry in their order, and the sentinel in the slot the base has it in.
C9_SentinelKeepsSlot ==
    (built = 1 /\ HasSentinel(feat)) =>
        \A m \in Members(iso_feature) :
            /\ Len(m) = Len(feat)
            /\ \E g \in Symmetries : Real(m) = MapReal(feat, g)
            /\ \A k \in 1 .. Len(feat) : (m[k] = -1) <=> (feat[k] = -1)

\* C9 as amended: every member of the orbit built is the other positions of the
\* base feature mapped through one symmetry in their order, followed by one
\* sentinel in the last slot; it has the length of the base feature when the
\* base has one sentinel, and the sentinel keeps its slot when the base has
\* its only sentinel last.
C9_SentinelMovesLast ==
    (built = 1 /\ HasSentinel(feat)) =>
        \A m \in Members(iso_feature) :
            /\ Len(m) = Len(Real(feat)) + 1
            /\ m[Len(m)] = -1
            /\ \E g \in Symmetries : SubSeq(m, 1, Len(m) - 1) = MapReal(feat, g)
            /\ Len(Real(feat)) = Len(feat) - 1 => Len(m) = Len(feat)
            /\ (Len(Real(feat)) = Len(feat) - 1 /\ feat[Len(feat)] = -1) =>
                  \A k \in 1 .. Len(feat) : (m[k] = -1) <=> (feat[k] = -1)

\* the orbit of a base feature whose sentinel is not in the last slot
C9_Witness ==
    /\ built = 1
    /\ Len(feat) >= 3
    /\ feat[Len(feat)] # -1
    /\ HasSentinel(feat)
====
